---- MODULE Spec2Model ----
(***************************************************************************)
(* Excel QA API (src/main.py): one FastAPI process, three module globals   *)
(* (df, agent, current_file_url), the uploads/ directory, and the request  *)
(* handlers that read and write them.                                      *)
(*                                                                         *)
(* Scheduling.  Every handler is an `async def`, so all of them run on the *)
(* single asyncio event loop of the process.  A coroutine keeps the loop   *)
(* until it awaits something that is not ready.  The only such place in    *)
(* the file is `await file.read()` (line 186).  `await initialize_agent()` *)
(* (lines 105, 222, 277) calls a coroutine whose body contains no await,   *)
(* so it runs inline; requests.get (248) and agent.invoke (310) are plain  *)
(* blocking calls.  `running` is the handler that holds the loop; a        *)
(* handler statement is enabled only for the holder.                       *)
(*                                                                         *)
(* Data.  A CSV file is modelled after tokenisation: a sequence of lines,  *)
(* each a non-empty sequence of text cells.  Cells are text that pandas    *)
(* keeps as text (no numeric inference is modelled).  Files whose second   *)
(* line is longer than the first (pandas then infers index columns) are    *)
(* outside the modelled inputs.                                            *)
(***************************************************************************)
EXTENDS Integers, Sequences, FiniteSets, TLC

\* ---------------------------------------------------------------- bounds
\* Longest file (in lines) of the decoder specification.
MaxLines == 4
\* Number of requests that may be in flight at once.
NumReq == 2
\* Number of pd.read_csv calls in one run (each allocates a table object).
MaxIngest == 3

\* ------------------------------------------------------------ input sets
Cells == {"a", "b"}

NaN == "NaN"

LinesOfWidth(w) == [1..w -> Cells]

\* Lines are one or two cells wide.
Widths == {1, 2}

AllLines == UNION {LinesOfWidth(w) : w \in Widths}

SeqsUpTo(S, n) == UNION {[1..k -> S] : k \in 0..n}

\* Inputs of the decoder specification: every file of at most MaxLines lines
\* whose second line is not longer than its first.
AllContents ==
  {c \in SeqsUpTo(AllLines, MaxLines) : Len(c) < 2 \/ Len(c[2]) <= Len(c[1])}

\* Inputs of the request specification: one file of each shape.
EmptyFile == <<>>
OneLineFile == <<(<<"a", "b">>)>>
TwoLineFile == <<(<<"a", "b">>), (<<"b", "a">>)>>
ThreeLineFile == <<(<<"a">>), (<<"b">>), (<<"a">>)>>

SampleContents == {EmptyFile, OneLineFile, TwoLineFile, ThreeLineFile}

\* The body is a rectangular table of at least one line.
ValidDelimited(c) ==
  /\ Len(c) >= 1
  /\ \A i \in 1..Len(c) : Len(c[i]) = Len(c[1])

\* File names as token sequences; the last token is the extension.
CsvName == <<"data", ".csv">>
TxtName == <<"data", ".txt">>
Filenames == {CsvName, TxtName}

RemoteUrl == <<"http://host/remote.csv">>
Urls == {RemoteUrl}

Blank == " "
Questions == {<<>>, <<Blank>>, <<"q">>, <<Blank, "q", Blank>>}

\* Line 195: os.getenv('SERVER_URL', 'http://localhost:8000').
server_url == "http://localhost:8000"

\* ------------------------------------------------------- pandas operators
\* None for a table, an agent, a URL.
NoTable == [columns |-> <<>>, id |-> 0, rows |-> <<>>, src |-> <<>>]
NoAgent == [df |-> NoTable]
NoUrl == <<>>

IsNone(t) == t.id = 0

\* A short row is filled with NaN up to the header's width.
Pad(line, w) == [j \in 1..w |-> IF j <= Len(line) THEN line[j] ELSE NaN]

\* pd.read_csv(io.BytesIO(contents)): "ok", or the exception it raises.
ReadCsvOutcome(c) ==
  IF Len(c) = 0 THEN "EmptyDataError"
  ELSE IF \E i \in 2..Len(c) : Len(c[i]) > Len(c[1]) THEN "ParserError"
  ELSE "ok"

\* The table pd.read_csv returns: line 1 is the header, the others the rows.
\* id is the object's identity; src (ghost) the bytes it was parsed from.
ReadCsv(c, id) ==
  [columns |-> c[1],
   id |-> id,
   rows |-> [i \in 1..(Len(c) - 1) |-> Pad(c[i + 1], Len(c[1]))],
   src |-> c]

\* df.iloc[0] raises IndexError on a table without rows.
Iloc0Outcome(t) == IF Len(t.rows) = 0 THEN "IndexError" ELSE "ok"

\* df.columns = df.iloc[0]: the same object, renamed in place.
PromoteHeader(t) == [t EXCEPT !.columns = t.rows[1]]

\* Variant: the promoted row is not dropped.
KeepFirstRow(t) == t

\* df.iloc[1:].reset_index(drop=True): a new object without the first row.
DropFirstRow(t) == [t EXCEPT !.rows = Tail(t.rows)]

\* Variant: the row count includes the header line.
LinesWithHeader(t) == Len(t.rows) + 1

\* df.shape
Shape0(t) == Len(t.rows)
Shape1(t) == Len(t.columns)

\* str.strip() on a question, as a sequence of characters.
RECURSIVE LStrip(_)
LStrip(s) == IF s # <<>> /\ Head(s) = Blank THEN LStrip(Tail(s)) ELSE s

RECURSIVE RStrip(_)
RStrip(s) ==
  IF s # <<>> /\ s[Len(s)] = Blank THEN RStrip(SubSeq(s, 1, Len(s) - 1)) ELSE s

Strip(s) == RStrip(LStrip(s))

\* Variant: the guard only asks for a file name.
HasFilename(name) == Len(name) >= 1

\* file.filename.endswith('.csv')
EndsWithCsv(name) == Len(name) >= 1 /\ name[Len(name)] = ".csv"

\* f"{server_url}/uploads/{file.filename}"
FileUrl(name) == <<server_url, "/uploads/">> \o name

\* ------------------------------------------------------------------ state
Req == 1..NumReq

VARIABLES
  df,                \* global df (line 68): the published table, or NoTable
  agent,             \* global agent (line 67): the bound agent, or NoAgent
  current_file_url,  \* global current_file_url (line 70), or NoUrl
  uploads,           \* the files of UPLOADS_DIR (line 73)
  sample_csv,        \* the file sample.csv of the working directory
  startup_pc,        \* position of startup_event
  pc,                \* position of each request's handler
  req,               \* each request's parameters
  contents,          \* each handler's local `contents`
  exc,               \* the exception a handler's try block raised
  resp,              \* each request's response
  running,           \* the request whose handler holds the event loop, or 0
  nextId,            \* number of table objects pd.read_csv has created
  pre,               \* ghost: the globals when the running handler took the loop
  version            \* ghost: number of times the published table was replaced

vars == <<df, agent, current_file_url, uploads, sample_csv, startup_pc, pc, req,
          contents, exc, resp, running, nextId, pre, version>>

NoRole == ""

Absent == [data |-> <<>>, exists |-> FALSE]
Stored(c) == [data |-> c, exists |-> TRUE]

\* caller (ghost): the role the sender's last login returned, NoRole without a
\* successful login.  The server keeps no session; no handler receives it.
NoReq ==
  [body |-> <<>>, caller |-> NoRole, file_url |-> <<>>, filename |-> <<>>,
   kind |-> "none", password |-> "", question |-> <<>>, username |-> ""]

NoResp ==
  [answer |-> "", column_names |-> <<>>, columns |-> 0 - 1, detail |-> "",
   file_url |-> <<>>, invocations |-> 0, over |-> 0, role |-> "",
   rows |-> 0 - 1, status |-> 0]

NoExc == ""

\* Lines 61-64.
USERS ==
  [admin |-> [password |-> "admin123", role |-> "admin"],
   user |-> [password |-> "user123", role |-> "user"]]

Usernames == {"admin", "guest", "user"}
Passwords == {"admin123", "user123"}

\* Lines 165-171: what login answers to a username and a password.
LoginRole(username, password) ==
  IF username \in DOMAIN USERS /\ USERS[username].password = password
    THEN USERS[username].role
    ELSE NoRole

\* The roles a sender can hold after its logins: every value of LoginRole.
Callers == {NoRole, "admin", "user"}

\* Where senders are not told apart, every request is sent without a login.
Anyone == {NoRole}

UploadRequests(bodies, callers) ==
  {[NoReq EXCEPT !.kind = "upload", !.filename = f, !.body = c, !.caller = a] :
     f \in Filenames, c \in bodies, a \in callers}
LoadRequests(callers) ==
  {[NoReq EXCEPT !.kind = "load", !.file_url = u, !.caller = a] :
     u \in Urls, a \in callers}
AskRequests == {[NoReq EXCEPT !.kind = "ask", !.question = q] : q \in Questions}
LoginRequests ==
  {[NoReq EXCEPT !.kind = "login", !.username = u, !.password = p] :
     u \in Usernames, p \in Passwords}

IsIngest(q) == q.kind \in {"upload", "load"}

Globals ==
  [agent |-> agent, current_file_url |-> current_file_url, df |-> df,
   uploads |-> uploads, version |-> version]

\* The sample.csv files of the request specification.
SampleCsvFiles == {Absent, Stored(OneLineFile), Stored(ThreeLineFile)}

\* Lines 66-74, before startup_event runs.  sample.csv is present or not.
Init ==
  /\ df = NoTable
  /\ agent = NoAgent
  /\ current_file_url = NoUrl
  /\ uploads = [f \in Filenames |-> Absent]
  /\ sample_csv \in SampleCsvFiles
  /\ startup_pc = "exists"
  /\ pc = [r \in Req |-> "idle"]
  /\ req = [r \in Req |-> NoReq]
  /\ contents = [r \in Req |-> <<>>]
  /\ exc = [r \in Req |-> NoExc]
  /\ resp = [r \in Req |-> NoResp]
  /\ running = 0
  /\ nextId = 0
  /\ pre = [agent |-> NoAgent, current_file_url |-> NoUrl, df |-> NoTable,
            uploads |-> [f \in Filenames |-> Absent], version |-> 0]
  /\ version = 0

\* ------------------------------------------------------- initialize_agent
\* Lines 112-134.  engine_ok: ChatGoogleGenerativeAI and
\* create_pandas_dataframe_agent construct without raising.
InitializeAgentOutcome(d, engine_ok) ==
  IF IsNone(d) THEN "ValueError"
  ELSE IF engine_ok THEN "ok"
  ELSE "AgentInitError"

\* Lines 127-132: the new agent holds a reference to the table it was given.
BindAgent(d) == [df |-> d]

\* Variant: initialize_agent awaits something and gives the event loop away.
InitializeAgentYields == TRUE

\* `await initialize_agent()`: the coroutine's body has no await of its own,
\* so the caller keeps the event loop across the call.
AwaitInitializeAgentSuspends == FALSE

AfterInitializeAgent(r) == IF AwaitInitializeAgentSuspends THEN 0 ELSE r

\* The ghost version counts a handler that leaves a different table object
\* (or a different table) in df than it found.
Replaced == IF df # pre.df THEN 1 ELSE 0

----
\* ---------------------------------------------------------- startup_event
\* Line 94: os.path.exists('sample.csv').
StartupExists ==
  /\ startup_pc = "exists"
  /\ startup_pc' = IF sample_csv.exists THEN "read_csv" ELSE "done"
  /\ UNCHANGED <<df, agent, current_file_url, uploads, sample_csv, pc, req,
                 contents, exc, resp, running, nextId, pre, version>>

\* Line 95; an exception goes to the handler of lines 109-110.
StartupReadCsv ==
  /\ startup_pc = "read_csv"
  /\ IF ReadCsvOutcome(sample_csv.data) = "ok"
       THEN /\ df' = ReadCsv(sample_csv.data, nextId + 1)
            /\ nextId' = nextId + 1
            /\ startup_pc' = "promote"
       ELSE /\ startup_pc' = "except"
            /\ UNCHANGED <<df, nextId>>
  /\ UNCHANGED <<agent, current_file_url, uploads, sample_csv, pc, req,
                 contents, exc, resp, running, pre, version>>

\* Line 97.
StartupPromote ==
  /\ startup_pc = "promote"
  /\ IF Iloc0Outcome(df) = "ok"
       THEN /\ df' = PromoteHeader(df)
            /\ startup_pc' = "drop"
       ELSE /\ startup_pc' = "except"
            /\ UNCHANGED df
  /\ UNCHANGED <<agent, current_file_url, uploads, sample_csv, pc, req,
                 contents, exc, resp, running, nextId, pre, version>>

\* Line 99.
StartupDrop ==
  /\ startup_pc = "drop"
  /\ df' = DropFirstRow(df)
  /\ startup_pc' = "rebind"
  /\ UNCHANGED <<agent, current_file_url, uploads, sample_csv, pc, req,
                 contents, exc, resp, running, nextId, pre, version>>

\* Line 105; the last statement of the try block.
StartupRebind ==
  /\ startup_pc = "rebind"
  /\ \E engine_ok \in BOOLEAN :
       IF InitializeAgentOutcome(df, engine_ok) = "ok"
         THEN /\ agent' = BindAgent(df)
              /\ startup_pc' = "done"
              /\ version' = version + Replaced
         ELSE /\ startup_pc' = "except"
              /\ UNCHANGED <<agent, version>>
  /\ UNCHANGED <<df, current_file_url, uploads, sample_csv, pc, req,
                 contents, exc, resp, running, nextId, pre>>

\* Lines 109-110: the exception is printed and startup completes.
StartupExcept ==
  /\ startup_pc = "except"
  /\ startup_pc' = "done"
  /\ version' = version + Replaced
  /\ UNCHANGED <<df, agent, current_file_url, uploads, sample_csv, pc, req,
                 contents, exc, resp, running, nextId, pre>>

----
\* ------------------------------------------------------- request plumbing
\* Ingestions are admitted while table objects remain to be allocated.
InFlightIngests == Cardinality({r \in Req : IsIngest(req[r])})

CanAllocate == nextId + InFlightIngests < MaxIngest

\* Request q arrives and its handler is called: it takes the event loop.
Enter(r, q) ==
  /\ startup_pc = "done"
  /\ running = 0
  /\ pc[r] = "idle"
  /\ req' = [req EXCEPT ![r] = q]
  /\ pre' = Globals

\* The handler of request r executes its statement at position p.
At(r, kind, p) ==
  /\ running = r
  /\ pc[r] = p
  /\ req[r].kind = kind

\* The handler returned or raised: the response is sent and the loop is free.
Return(r) ==
  /\ running = r
  /\ pc[r] = "done"
  /\ running' = 0
  /\ pc' = [pc EXCEPT ![r] = "idle"]
  /\ req' = [req EXCEPT ![r] = NoReq]
  /\ resp' = [resp EXCEPT ![r] = NoResp]
  /\ exc' = [exc EXCEPT ![r] = NoExc]
  /\ contents' = [contents EXCEPT ![r] = <<>>]
  /\ pre' = Globals
  /\ UNCHANGED <<df, agent, current_file_url, uploads, sample_csv, startup_pc,
                 nextId, version>>

Goto(r, p) == pc' = [pc EXCEPT ![r] = p]

Raise(r, e) ==
  /\ exc' = [exc EXCEPT ![r] = e]
  /\ Goto(r, "except")

Reply(r, response) ==
  /\ resp' = [resp EXCEPT ![r] = response]
  /\ Goto(r, "done")

HTTPException(status, detail) ==
  [NoResp EXCEPT !.status = status, !.detail = detail]

----
\* ------------------------------------------------------------- upload_csv
\* Lines 181-186: the extension guard, then `await file.read()`, where the
\* handler gives the event loop away until the body is read.
UploadCheck(r, requests) ==
  /\ CanAllocate
  /\ \E q \in requests :
       /\ Enter(r, q)
       /\ IF ~EndsWithCsv(q.filename)
            THEN /\ Reply(r, HTTPException(400, "Only CSV files are allowed"))
                 /\ running' = r
            ELSE /\ Goto(r, "reading")
                 /\ running' = 0
                 /\ UNCHANGED resp
  /\ UNCHANGED <<df, agent, current_file_url, uploads, sample_csv, startup_pc,
                 contents, exc, nextId, version>>

\* Variant: the URL of lines 195-197 is assigned before the file is written.
UploadPersistSetsUrlFirst(r) ==
  /\ running = 0
  /\ pc[r] = "reading"
  /\ req[r].kind = "upload"
  /\ running' = r
  /\ pre' = Globals
  /\ contents' = [contents EXCEPT ![r] = req[r].body]
  /\ current_file_url' = FileUrl(req[r].filename)
  /\ \E outcome \in {"ok", "open_fails", "write_fails"} :
       /\ uploads' =
            CASE outcome = "ok" ->
                   [uploads EXCEPT ![req[r].filename] = Stored(req[r].body)]
              [] outcome = "write_fails" ->
                   [uploads EXCEPT ![req[r].filename] = Stored(<<>>)]
              [] OTHER -> uploads
       /\ IF outcome = "ok"
            THEN Goto(r, "set_url") /\ UNCHANGED exc
            ELSE Raise(r, "OSError")
  /\ UNCHANGED <<df, agent, sample_csv, startup_pc, req, resp, nextId, version>>

\* Lines 186-191: the body arrives, the handler resumes and writes it to
\* uploads/<filename>.  open() may fail, or write() after open() truncated.
UploadPersist(r) ==
  /\ running = 0
  /\ pc[r] = "reading"
  /\ req[r].kind = "upload"
  /\ running' = r
  /\ pre' = Globals
  /\ contents' = [contents EXCEPT ![r] = req[r].body]
  /\ \E outcome \in {"ok", "open_fails", "write_fails"} :
       /\ uploads' =
            CASE outcome = "ok" ->
                   [uploads EXCEPT ![req[r].filename] = Stored(req[r].body)]
              [] outcome = "write_fails" ->
                   [uploads EXCEPT ![req[r].filename] = Stored(<<>>)]
              [] OTHER -> uploads
       /\ IF outcome = "ok"
            THEN Goto(r, "set_url") /\ UNCHANGED exc
            ELSE Raise(r, "OSError")
  /\ UNCHANGED <<df, agent, current_file_url, sample_csv, startup_pc, req,
                 resp, nextId, version>>

\* Lines 195-197.
UploadSetUrl(r) ==
  /\ At(r, "upload", "set_url")
  /\ current_file_url' = FileUrl(req[r].filename)
  /\ Goto(r, "read_csv")
  /\ UNCHANGED <<df, agent, uploads, sample_csv, startup_pc, req, contents,
                 exc, resp, running, nextId, pre, version>>

\* Line 211.
UploadReadCsv(r) ==
  /\ At(r, "upload", "read_csv")
  /\ IF ReadCsvOutcome(contents[r]) = "ok"
       THEN /\ df' = ReadCsv(contents[r], nextId + 1)
            /\ nextId' = nextId + 1
            /\ Goto(r, "promote")
            /\ UNCHANGED exc
       ELSE /\ Raise(r, ReadCsvOutcome(contents[r]))
            /\ UNCHANGED <<df, nextId>>
  /\ UNCHANGED <<agent, current_file_url, uploads, sample_csv, startup_pc, req,
                 contents, resp, running, pre, version>>

\* Line 213.
UploadPromote(r) ==
  /\ At(r, "upload", "promote")
  /\ IF Iloc0Outcome(df) = "ok"
       THEN /\ df' = PromoteHeader(df)
            /\ Goto(r, "drop")
            /\ UNCHANGED exc
       ELSE /\ Raise(r, Iloc0Outcome(df))
            /\ UNCHANGED df
  /\ UNCHANGED <<agent, current_file_url, uploads, sample_csv, startup_pc, req,
                 contents, resp, running, nextId, pre, version>>

\* Line 215.
UploadDrop(r) ==
  /\ At(r, "upload", "drop")
  /\ df' = DropFirstRow(df)
  /\ Goto(r, "rebind")
  /\ UNCHANGED <<agent, current_file_url, uploads, sample_csv, startup_pc, req,
                 contents, exc, resp, running, nextId, pre, version>>

\* Line 222.
UploadRebind(r) ==
  /\ At(r, "upload", "rebind")
  /\ \E engine_ok \in BOOLEAN :
       IF InitializeAgentOutcome(df, engine_ok) = "ok"
         THEN /\ agent' = BindAgent(df)
              /\ Goto(r, "respond")
              /\ UNCHANGED exc
         ELSE /\ Raise(r, InitializeAgentOutcome(df, engine_ok))
              /\ UNCHANGED agent
  /\ running' = AfterInitializeAgent(r)
  /\ UNCHANGED <<df, current_file_url, uploads, sample_csv, startup_pc, req,
                 contents, resp, nextId, pre, version>>

\* Lines 224-231: the counts are read from the global df.
UploadRespond(r) ==
  /\ running \in {0, r}
  /\ pc[r] = "respond"
  /\ req[r].kind = "upload"
  /\ running' = r
  /\ Reply(r, [NoResp EXCEPT !.status = 200,
                             !.detail = "CSV uploaded successfully",
                             !.file_url = FileUrl(req[r].filename),
                             !.rows = Shape0(df),
                             !.columns = Shape1(df)])
  /\ version' = version + Replaced
  /\ UNCHANGED <<df, agent, current_file_url, uploads, sample_csv, startup_pc,
                 req, contents, exc, nextId, pre>>

\* Variant: the except clause unbinds the agent.
UploadExceptUnbinds(r) ==
  /\ running \in {0, r}
  /\ pc[r] = "except"
  /\ req[r].kind = "upload"
  /\ running' = r
  /\ agent' = NoAgent
  /\ Reply(r, HTTPException(500, "Error uploading file"))
  /\ version' = version + Replaced
  /\ UNCHANGED <<df, current_file_url, uploads, sample_csv, startup_pc, req,
                 contents, exc, nextId, pre>>

\* Lines 233-234.
UploadExcept(r) ==
  /\ running \in {0, r}
  /\ pc[r] = "except"
  /\ req[r].kind = "upload"
  /\ running' = r
  /\ Reply(r, HTTPException(500, "Error uploading file"))
  /\ version' = version + Replaced
  /\ UNCHANGED <<df, agent, current_file_url, uploads, sample_csv, startup_pc,
                 req, contents, exc, nextId, pre>>

----
\* ---------------------------------------------------------- load_from_url
\* Variant: load_from_url assigns current_file_url before the download, as
\* upload_csv assigns it before the parse.
LoadFetchSetsUrlFirst(r, requests, served) ==
  /\ CanAllocate
  /\ \E q \in requests :
       /\ Enter(r, q)
       /\ current_file_url' = q.file_url
  /\ running' = r
  /\ \/ /\ Raise(r, "RequestException")
        /\ UNCHANGED contents
     \/ \E c \in served :
          /\ contents' = [contents EXCEPT ![r] = c]
          /\ Goto(r, "read_csv")
          /\ UNCHANGED exc
  /\ UNCHANGED <<df, agent, uploads, sample_csv, startup_pc, resp, nextId,
                 version>>

\* Lines 245-250: requests.get blocks until the body or a RequestException
\* (connection error, timeout, error status); served is what the URL serves.
LoadFetch(r, requests, served) ==
  /\ CanAllocate
  /\ \E q \in requests : Enter(r, q)
  /\ running' = r
  /\ \/ /\ Raise(r, "RequestException")
        /\ UNCHANGED contents
     \/ \E c \in served :
          /\ contents' = [contents EXCEPT ![r] = c]
          /\ Goto(r, "read_csv")
          /\ UNCHANGED exc
  /\ UNCHANGED <<df, agent, current_file_url, uploads, sample_csv, startup_pc,
                 resp, nextId, version>>

\* Line 265.
LoadReadCsv(r) ==
  /\ At(r, "load", "read_csv")
  /\ IF ReadCsvOutcome(contents[r]) = "ok"
       THEN /\ df' = ReadCsv(contents[r], nextId + 1)
            /\ nextId' = nextId + 1
            /\ Goto(r, "promote")
            /\ UNCHANGED exc
       ELSE /\ Raise(r, ReadCsvOutcome(contents[r]))
            /\ UNCHANGED <<df, nextId>>
  /\ UNCHANGED <<agent, current_file_url, uploads, sample_csv, startup_pc, req,
                 contents, resp, running, pre, version>>

\* Line 267.
LoadPromote(r) ==
  /\ At(r, "load", "promote")
  /\ IF Iloc0Outcome(df) = "ok"
       THEN /\ df' = PromoteHeader(df)
            /\ Goto(r, "drop")
            /\ UNCHANGED exc
       ELSE /\ Raise(r, Iloc0Outcome(df))
            /\ UNCHANGED df
  /\ UNCHANGED <<agent, current_file_url, uploads, sample_csv, startup_pc, req,
                 contents, resp, running, nextId, pre, version>>

\* Line 269.
LoadDrop(r) ==
  /\ At(r, "load", "drop")
  /\ df' = DropFirstRow(df)
  /\ Goto(r, "set_url")
  /\ UNCHANGED <<agent, current_file_url, uploads, sample_csv, startup_pc, req,
                 contents, exc, resp, running, nextId, pre, version>>

\* Line 271.
LoadSetUrl(r) ==
  /\ At(r, "load", "set_url")
  /\ current_file_url' = req[r].file_url
  /\ Goto(r, "rebind")
  /\ UNCHANGED <<df, agent, uploads, sample_csv, startup_pc, req, contents,
                 exc, resp, running, nextId, pre, version>>

\* Line 277.
LoadRebind(r) ==
  /\ At(r, "load", "rebind")
  /\ \E engine_ok \in BOOLEAN :
       IF InitializeAgentOutcome(df, engine_ok) = "ok"
         THEN /\ agent' = BindAgent(df)
              /\ Goto(r, "respond")
              /\ UNCHANGED exc
         ELSE /\ Raise(r, InitializeAgentOutcome(df, engine_ok))
              /\ UNCHANGED agent
  /\ running' = AfterInitializeAgent(r)
  /\ UNCHANGED <<df, current_file_url, uploads, sample_csv, startup_pc, req,
                 contents, resp, nextId, pre, version>>

\* Lines 279-284.
LoadRespond(r) ==
  /\ running \in {0, r}
  /\ pc[r] = "respond"
  /\ req[r].kind = "load"
  /\ running' = r
  /\ Reply(r, [NoResp EXCEPT !.status = 200,
                             !.detail = "Data loaded from URL successfully",
                             !.rows = Shape0(df),
                             !.columns = Shape1(df)])
  /\ version' = version + Replaced
  /\ UNCHANGED <<df, agent, current_file_url, uploads, sample_csv, startup_pc,
                 req, contents, exc, nextId, pre>>

\* Lines 286-289: one detail for a failed download, one for anything else.
LoadExcept(r) ==
  /\ running \in {0, r}
  /\ pc[r] = "except"
  /\ req[r].kind = "load"
  /\ running' = r
  /\ Reply(r, HTTPException(500, IF exc[r] = "RequestException"
                                   THEN "Error downloading file"
                                   ELSE "Error loading data"))
  /\ version' = version + Replaced
  /\ UNCHANGED <<df, agent, current_file_url, uploads, sample_csv, startup_pc,
                 req, contents, exc, nextId, pre>>

----
\* ----------------------------------------------------------- ask_question
\* Lines 302-306: the agent check comes first, then the empty-question check.
AskAdmit(r) ==
  /\ \E q \in AskRequests :
       /\ Enter(r, q)
       /\ IF agent = NoAgent
            THEN Reply(r, HTTPException(503, "Agent not initialized"))
            ELSE IF Strip(q.question) = <<>>
              THEN Reply(r, HTTPException(400, "Question cannot be empty"))
              ELSE Goto(r, "invoke") /\ UNCHANGED resp
  /\ running' = r
  /\ UNCHANGED <<df, agent, current_file_url, uploads, sample_csv, startup_pc,
                 contents, exc, nextId, version>>

\* Variant: a call of agent.invoke that raises is tried a second time.
AskInvokeRetries(r) ==
  /\ At(r, "ask", "invoke")
  /\ \E outcome \in {"no_output", "output", "raises"} :
       CASE outcome = "output" ->
              Reply(r, [NoResp EXCEPT !.status = 200, !.answer = "output",
                                      !.invocations = resp[r].invocations + 1,
                                      !.over = agent.df.id])
         [] outcome = "no_output" ->
              Reply(r, [NoResp EXCEPT !.status = 200,
                                      !.answer = "No answer generated",
                                      !.invocations = resp[r].invocations + 1,
                                      !.over = agent.df.id])
         [] OTHER ->
              IF resp[r].invocations = 0
                THEN /\ resp' = [resp EXCEPT ![r].invocations = 1]
                     /\ UNCHANGED pc
                ELSE Reply(r, [HTTPException(500, "Error processing question")
                                 EXCEPT !.invocations =
                                          resp[r].invocations + 1])
  /\ UNCHANGED <<df, agent, current_file_url, uploads, sample_csv, startup_pc,
                 req, contents, exc, running, nextId, pre, version>>

\* Lines 308-318: one call of agent.invoke on the global agent; it returns a
\* result with or without 'output', or raises.  over (ghost) is the table
\* object the answering agent reads; invocations (ghost) counts the calls of
\* agent.invoke this request has made.
AskInvoke(r) ==
  /\ At(r, "ask", "invoke")
  /\ \E outcome \in {"no_output", "output", "raises"} :
       Reply(r, CASE outcome = "output" ->
                       [NoResp EXCEPT !.status = 200, !.answer = "output",
                                      !.invocations = resp[r].invocations + 1,
                                      !.over = agent.df.id]
                  [] outcome = "no_output" ->
                       [NoResp EXCEPT !.status = 200,
                                      !.answer = "No answer generated",
                                      !.invocations = resp[r].invocations + 1,
                                      !.over = agent.df.id]
                  [] OTHER ->
                       [HTTPException(500, "Error processing question")
                          EXCEPT !.invocations = resp[r].invocations + 1])
  /\ UNCHANGED <<df, agent, current_file_url, uploads, sample_csv, startup_pc,
                 req, contents, exc, running, nextId, pre, version>>

\* -------------------------------------------------------------- read-only
\* Lines 320-330.
GetDataInfo(r) ==
  /\ Enter(r, [NoReq EXCEPT !.kind = "info"])
  /\ running' = r
  /\ IF df = NoTable
       THEN Reply(r, HTTPException(503, "Data not loaded"))
       ELSE Reply(r, [NoResp EXCEPT !.status = 200,
                                    !.rows = Shape0(df),
                                    !.columns = Shape1(df),
                                    !.column_names = df.columns])
  /\ UNCHANGED <<df, agent, current_file_url, uploads, sample_csv, startup_pc,
                 contents, exc, nextId, version>>

\* Lines 146-154.
HealthCheck(r) ==
  /\ Enter(r, [NoReq EXCEPT !.kind = "health"])
  /\ running' = r
  /\ IF df = NoTable
       THEN Reply(r, [NoResp EXCEPT !.status = 200,
                                    !.detail = "No data loaded",
                                    !.file_url = current_file_url])
       ELSE Reply(r, [NoResp EXCEPT !.status = 200,
                                    !.rows = Shape0(df),
                                    !.columns = Shape1(df),
                                    !.file_url = current_file_url])
  /\ UNCHANGED <<df, agent, current_file_url, uploads, sample_csv, startup_pc,
                 contents, exc, nextId, version>>

\* Lines 156-171.
Login(r) ==
  /\ \E q \in LoginRequests :
       /\ Enter(r, q)
       /\ IF q.username \notin DOMAIN USERS
            THEN Reply(r, [NoResp EXCEPT !.status = 200,
                                         !.detail = "User not found"])
            ELSE IF USERS[q.username].password # q.password
              THEN Reply(r, [NoResp EXCEPT !.status = 200,
                                           !.detail = "Invalid password"])
              ELSE Reply(r, [NoResp EXCEPT !.status = 200,
                                           !.detail = "Login successful",
                                           !.role = USERS[q.username].role])
  /\ running' = r
  /\ UNCHANGED <<df, agent, current_file_url, uploads, sample_csv, startup_pc,
                 contents, exc, nextId, version>>

----
\* --------------------------------------------------------- specifications
Next ==
  \/ StartupExists
  \/ StartupReadCsv
  \/ StartupPromote
  \/ StartupDrop
  \/ StartupRebind
  \/ StartupExcept
  \/ \E r \in Req : UploadCheck(r, UploadRequests(SampleContents, Anyone))
  \/ \E r \in Req : UploadPersist(r)
  \/ \E r \in Req : UploadSetUrl(r)
  \/ \E r \in Req : UploadReadCsv(r)
  \/ \E r \in Req : UploadPromote(r)
  \/ \E r \in Req : UploadDrop(r)
  \/ \E r \in Req : UploadRebind(r)
  \/ \E r \in Req : UploadRespond(r)
  \/ \E r \in Req : UploadExcept(r)
  \/ \E r \in Req : LoadFetch(r, LoadRequests(Anyone), SampleContents)
  \/ \E r \in Req : LoadReadCsv(r)
  \/ \E r \in Req : LoadPromote(r)
  \/ \E r \in Req : LoadDrop(r)
  \/ \E r \in Req : LoadSetUrl(r)
  \/ \E r \in Req : LoadRebind(r)
  \/ \E r \in Req : LoadRespond(r)
  \/ \E r \in Req : LoadExcept(r)
  \/ \E r \in Req : AskAdmit(r)
  \/ \E r \in Req : AskInvoke(r)
  \/ \E r \in Req : GetDataInfo(r)
  \/ \E r \in Req : HealthCheck(r)
  \/ \E r \in Req : Login(r)
  \/ \E r \in Req : Return(r)

Spec == Init /\ [][Next]_vars

\* The decoder specification: every file of AllContents goes once through
\* one of the three ingestion paths of a fresh process.
InitDecode ==
  /\ df = NoTable
  /\ agent = NoAgent
  /\ current_file_url = NoUrl
  /\ uploads = [f \in Filenames |-> Absent]
  /\ sample_csv \in {Absent} \cup {Stored(c) : c \in AllContents}
  /\ startup_pc = "exists"
  /\ pc = [r \in Req |-> "idle"]
  /\ req = [r \in Req |-> NoReq]
  /\ contents = [r \in Req |-> <<>>]
  /\ exc = [r \in Req |-> NoExc]
  /\ resp = [r \in Req |-> NoResp]
  /\ running = 0
  /\ nextId = 0
  /\ pre = [agent |-> NoAgent, current_file_url |-> NoUrl, df |-> NoTable,
            uploads |-> [f \in Filenames |-> Absent], version |-> 0]
  /\ version = 0

Fresh ==
  /\ sample_csv = Absent
  /\ nextId = 0
  /\ InFlightIngests = 0
  /\ \A f \in Filenames : uploads[f] = Absent

NextDecode ==
  \/ StartupExists
  \/ StartupReadCsv
  \/ StartupPromote
  \/ StartupDrop
  \/ StartupRebind
  \/ StartupExcept
  \/ Fresh /\ \E r \in Req : UploadCheck(r, UploadRequests(AllContents, Anyone))
  \/ \E r \in Req : UploadPersist(r)
  \/ \E r \in Req : UploadSetUrl(r)
  \/ \E r \in Req : UploadReadCsv(r)
  \/ \E r \in Req : UploadPromote(r)
  \/ \E r \in Req : UploadDrop(r)
  \/ \E r \in Req : UploadRebind(r)
  \/ \E r \in Req : UploadRespond(r)
  \/ \E r \in Req : UploadExcept(r)
  \/ Fresh /\ \E r \in Req : LoadFetch(r, LoadRequests(Anyone), AllContents)
  \/ \E r \in Req : LoadReadCsv(r)
  \/ \E r \in Req : LoadPromote(r)
  \/ \E r \in Req : LoadDrop(r)
  \/ \E r \in Req : LoadSetUrl(r)
  \/ \E r \in Req : LoadRebind(r)
  \/ \E r \in Req : LoadRespond(r)
  \/ \E r \in Req : LoadExcept(r)
  \/ \E r \in Req : Return(r)

SpecDecode == InitDecode /\ [][NextDecode]_vars

\* The access specification: logins and ingestions, every ingestion sent by a
\* sender of each role a login can return and by a sender without a login.
AccessContents == {OneLineFile, ThreeLineFile}

NextAccess ==
  \/ StartupExists
  \/ StartupReadCsv
  \/ StartupPromote
  \/ StartupDrop
  \/ StartupRebind
  \/ StartupExcept
  \/ \E r \in Req : UploadCheck(r, UploadRequests(AccessContents, Callers))
  \/ \E r \in Req : UploadPersist(r)
  \/ \E r \in Req : UploadSetUrl(r)
  \/ \E r \in Req : UploadReadCsv(r)
  \/ \E r \in Req : UploadPromote(r)
  \/ \E r \in Req : UploadDrop(r)
  \/ \E r \in Req : UploadRebind(r)
  \/ \E r \in Req : UploadRespond(r)
  \/ \E r \in Req : UploadExcept(r)
  \/ \E r \in Req : LoadFetch(r, LoadRequests(Callers), AccessContents)
  \/ \E r \in Req : LoadReadCsv(r)
  \/ \E r \in Req : LoadPromote(r)
  \/ \E r \in Req : LoadDrop(r)
  \/ \E r \in Req : LoadSetUrl(r)
  \/ \E r \in Req : LoadRebind(r)
  \/ \E r \in Req : LoadRespond(r)
  \/ \E r \in Req : LoadExcept(r)
  \/ \E r \in Req : Login(r)
  \/ \E r \in Req : Return(r)

SpecAccess == Init /\ [][NextAccess]_vars

----
\* ----------------------------------------------------------------- claims
IngestDone(r) == pc[r] = "done" /\ IsIngest(req[r])
AskDone(r) == pc[r] = "done" /\ req[r].kind = "ask"

DecodeErrors == {"EmptyDataError", "IndexError", "ParserError"}

\* t is the complete header-promoted table of the bytes it was parsed from:
\* line 2 names the columns and lines 3..n are the rows.
IsHeaderPromoted(t) ==
  /\ Len(t.src) >= 2
  /\ t.columns = Pad(t.src[2], Len(t.src[1]))
  /\ t.rows = [i \in 1..(Len(t.src) - 2) |-> Pad(t.src[i + 2], Len(t.src[1]))]

\* The published table has no agent of its own: the ingestion that decoded and
\* published it failed to rebuild the agent, and none has rebuilt it since.
Degraded == IsHeaderPromoted(df) /\ agent.df # df

\* C1: when decoding fails in upload-csv or load-from-url (the parse raises or
\* the header promotion raises), the request ends in an error and df and the
\* agent are what they were before the request.
C1_DecodeFailureLeavesStore ==
  \A r \in Req :
    (IngestDone(r) /\ exc[r] \in DecodeErrors) =>
      /\ resp[r].status = 500
      /\ df = pre.df
      /\ agent = pre.agent

\* C2: whatever a reader (data/info, health, ask) is served is a complete
\* published table: no table at all, or the header-promoted table of some
\* ingestion; never the raw parse that still has line 1 as its header.
ObservedTable(r) == IF req[r].kind = "ask" THEN agent.df ELSE df

C2_ReaderSeesWholeTable ==
  \A r \in Req :
    (pc[r] = "done" /\ req[r].kind \in {"ask", "health", "info"}) =>
      (IsNone(ObservedTable(r)) \/ IsHeaderPromoted(ObservedTable(r)))

\* C4: an ingestion whose agent rebuild fails leaves its new table published,
\* and while that table has no agent of its own every ask with a non-empty
\* question fails with the agent-unavailable error.
C4_DegradeNotRollback ==
  \A r \in Req :
    /\ (IngestDone(r) /\ exc[r] = "AgentInitError") =>
         (IsHeaderPromoted(df) /\ df.src = contents[r])
    /\ (AskDone(r) /\ Strip(req[r].question) # <<>> /\ Degraded) =>
         resp[r] = HTTPException(503, "Agent not initialized")

\* C5: ask with an empty or whitespace-only question fails with the
\* empty-question error in every store state.
C5_EmptyQuestionFirst ==
  \A r \in Req :
    (AskDone(r) /\ Strip(req[r].question) = <<>>) =>
      resp[r] = HTTPException(400, "Question cannot be empty")

\* C6: ask with a non-empty question before any table was published fails,
\* with an outcome other than the agent-unavailable one.
C6_NoDataDistinct ==
  \A r \in Req :
    (AskDone(r) /\ Strip(req[r].question) # <<>> /\ IsNone(df)) =>
      /\ resp[r].status \notin {0, 200}
      /\ resp[r] # HTTPException(503, "Agent not initialized")

\* C7: a successful ingestion advances the version by exactly one (to 1 from
\* the start), and an ingestion that ends in a format, persist, fetch or
\* decode error leaves the version unchanged.
C7_VersionPerPublish ==
  \A r \in Req :
    IngestDone(r) =>
      /\ resp[r].status = 200 => version = pre.version + 1
      /\ (resp[r].status = 400
            \/ exc[r] \in DecodeErrors \cup {"OSError", "RequestException"})
           => version = pre.version

\* C8: for a rectangular input of n >= 2 lines, each of the three ingestion
\* paths (startup, upload-csv, load-from-url) publishes the table whose column
\* names are the cells of line 2 and whose rows are lines 3..n in order.
ExpectedColumns(c) == c[2]
ExpectedRows(c) == SubSeq(c, 3, Len(c))

Decoded(r) == IngestDone(r) /\ exc[r] \in {NoExc, "AgentInitError"}

C8_HeaderPromotion ==
  /\ \A r \in Req :
       (Decoded(r) /\ ValidDelimited(contents[r]) /\ Len(contents[r]) >= 2) =>
         /\ df.columns = ExpectedColumns(contents[r])
         /\ df.rows = ExpectedRows(contents[r])
         /\ Len(df.rows) = Len(contents[r]) - 2
  /\ (startup_pc = "done" /\ nextId = 1 /\ sample_csv.exists
        /\ ValidDelimited(sample_csv.data) /\ Len(sample_csv.data) >= 2) =>
       /\ df.columns = ExpectedColumns(sample_csv.data)
       /\ df.rows = ExpectedRows(sample_csv.data)

C8_Witness ==
  \E r \in Req :
    /\ Decoded(r)
    /\ ValidDelimited(contents[r])
    /\ Len(contents[r]) = MaxLines
    /\ Len(contents[r][1]) = 2
    /\ contents[r][3] # contents[r][4]
    /\ contents[r][2] # contents[r][1]

\* C9: ingesting a one-line input succeeds: the request reports success with
\* rows = 0 and the published table has no rows and that line as its header.
C9_OneLineInput ==
  \A r \in Req :
    (IngestDone(r) /\ Len(contents[r]) = 1 /\ exc[r] # "OSError") =>
      /\ resp[r].status = 200
      /\ resp[r].rows = 0
      /\ df.columns = contents[r][1]
      /\ df.rows = <<>>

\* C10: ingestions in flight together are serialized.  An ingestion past
\* `await file.read()` holds the event loop until its response; when it ends,
\* df, agent and current_file_url are what the handler run alone on the state
\* it resumed from produces; a successful response reports the row and column
\* counts of the table decoded from the request's own bytes.
OwnUrl(r) ==
  IF req[r].kind = "upload" THEN FileUrl(req[r].filename) ELSE req[r].file_url

SerialDf(r) ==
  CASE exc[r] \in {NoExc, "AgentInitError"} ->
         DropFirstRow(PromoteHeader(ReadCsv(contents[r], nextId)))
    [] exc[r] = "IndexError" -> ReadCsv(contents[r], nextId)
    [] OTHER -> pre.df

SerialAgent(r) ==
  IF exc[r] = NoExc THEN BindAgent(SerialDf(r)) ELSE pre.agent

SerialUrl(r) ==
  CASE exc[r] \in {NoExc, "AgentInitError"} -> OwnUrl(r)
    [] exc[r] \in {"OSError", "RequestException"} -> pre.current_file_url
    [] OTHER -> IF req[r].kind = "upload" THEN OwnUrl(r)
                ELSE pre.current_file_url

C10_IngestionsSerialized ==
  \A r \in Req :
    /\ (IsIngest(req[r]) /\ pc[r] \notin {"idle", "reading"}) => running = r
    /\ (IngestDone(r) /\ resp[r].status # 400) =>
         /\ df = SerialDf(r)
         /\ agent = SerialAgent(r)
         /\ current_file_url = SerialUrl(r)
    /\ (IngestDone(r) /\ resp[r].status = 200) =>
         /\ resp[r].rows = Len(contents[r]) - 2
         /\ resp[r].columns = Len(contents[r][1])

C10_Witness ==
  \E r, s \in Req :
    /\ r # s
    /\ IngestDone(r)
    /\ resp[r].status = 200
    /\ pc[s] = "reading"
    /\ req[s].body # contents[r]
    /\ version >= 2

\* C11: when the fetch of load-from-url fails (connection error, timeout or
\* error status), the request ends in the download error and df, the agent and
\* current_file_url are what they were before the request.
C11_FetchFailureLeavesStore ==
  \A r \in Req :
    (IngestDone(r) /\ exc[r] = "RequestException") =>
      /\ req[r].kind = "load"
      /\ resp[r] = HTTPException(500, "Error downloading file")
      /\ contents[r] = <<>>
      /\ df = pre.df
      /\ agent = pre.agent
      /\ current_file_url = pre.current_file_url

C11_Witness ==
  \E r \in Req :
    /\ IngestDone(r)
    /\ exc[r] = "RequestException"
    /\ IsHeaderPromoted(df)
    /\ agent = BindAgent(df)
    /\ current_file_url \notin {NoUrl, req[r].file_url}

\* C12: upload-csv with a file name that does not end in .csv is rejected with
\* the 400 'Only CSV files are allowed' before any effect: the handler never
\* reads the body, nothing is written to the uploads directory, and df, the
\* agent and current_file_url are unchanged.
C12_NonCsvRejectedFirst ==
  \A r \in Req :
    (req[r].kind = "upload" /\ req[r].filename = TxtName) =>
      /\ pc[r] = "done"
      /\ resp[r] = HTTPException(400, "Only CSV files are allowed")
      /\ contents[r] = <<>>
      /\ exc[r] = NoExc
      /\ uploads = pre.uploads
      /\ df = pre.df
      /\ agent = pre.agent
      /\ current_file_url = pre.current_file_url
      /\ version = pre.version

C12_Witness ==
  \E r \in Req :
    /\ req[r].kind = "upload"
    /\ req[r].filename = TxtName
    /\ req[r].body = ThreeLineFile
    /\ pc[r] = "done"
    /\ IsHeaderPromoted(df)
    /\ uploads[TxtName] = Absent
    /\ uploads[CsvName].exists

\* C13: in upload-csv the received bytes are in the backing file before
\* decoding starts, and an upload whose write fails ends in the upload error
\* with df, the agent and current_file_url unchanged.
UploadDecoding(r) ==
  /\ req[r].kind = "upload"
  /\ \/ pc[r] \in {"read_csv", "promote", "drop", "rebind", "respond"}
     \/ pc[r] \in {"except", "done"}
          /\ exc[r] \in DecodeErrors \cup {"AgentInitError"}
     \/ pc[r] = "done" /\ resp[r].status = 200

C13_PersistBeforeDecode ==
  \A r \in Req :
    /\ UploadDecoding(r) =>
         /\ contents[r] = req[r].body
         /\ uploads[req[r].filename] = Stored(contents[r])
    /\ (IngestDone(r) /\ exc[r] = "OSError") =>
         /\ req[r].kind = "upload"
         /\ resp[r] = HTTPException(500, "Error uploading file")
         /\ df = pre.df
         /\ agent = pre.agent
         /\ current_file_url = pre.current_file_url
         /\ version = pre.version

C13_Witness ==
  \E r \in Req :
    /\ IngestDone(r)
    /\ exc[r] = "OSError"
    /\ req[r].body = ThreeLineFile
    /\ uploads[req[r].filename] = Stored(<<>>)
    /\ IsHeaderPromoted(df)
    /\ current_file_url = RemoteUrl

\* C14: an ask request never changes df, the agent, current_file_url or the
\* uploads directory, whether it is rejected, the agent raises or it answers;
\* and it calls agent.invoke at most once: exactly once when it is admitted
\* with a non-empty question, and a raising call is not repeated.
C14_AskReadOnly ==
  \A r \in Req :
    req[r].kind = "ask" =>
      /\ df = pre.df
      /\ agent = pre.agent
      /\ current_file_url = pre.current_file_url
      /\ uploads = pre.uploads
      /\ version = pre.version
      /\ resp[r].invocations <= 1
      /\ pc[r] = "done" =>
           (resp[r].invocations = 1 <=> resp[r].status \in {200, 500})

C14_Witness ==
  \E r \in Req :
    /\ AskDone(r)
    /\ resp[r].status = 500
    /\ resp[r].invocations = 1
    /\ IsHeaderPromoted(df)
    /\ current_file_url # NoUrl

\* C15: only a sender whose login returned the role admin replaces the
\* dataset: an upload-csv or load-from-url request that succeeded and changed
\* the published table was sent by a sender holding the role admin.
C15_OnlyAdminReplaces ==
  \A r \in Req :
    (IngestDone(r) /\ resp[r].status = 200 /\ df # pre.df) =>
      req[r].caller = "admin"

\* C16: data/info fails, with the 503 'Data not loaded', exactly when df is
\* unset; otherwise it answers the row count, the column count and the column
\* names of the table in df; and it changes no state.
InfoDone(r) == pc[r] = "done" /\ req[r].kind = "info"

C16_DataInfo ==
  \A r \in Req :
    InfoDone(r) =>
      /\ IsNone(df) <=> resp[r].status # 200
      /\ IsNone(df) => resp[r] = HTTPException(503, "Data not loaded")
      /\ ~IsNone(df) =>
           /\ resp[r].rows = Len(df.rows)
           /\ resp[r].columns = Len(df.columns)
           /\ resp[r].column_names = df.columns
      /\ df = pre.df
      /\ agent = pre.agent
      /\ current_file_url = pre.current_file_url
      /\ uploads = pre.uploads
      /\ version = pre.version

C16_Witness ==
  \E r \in Req :
    /\ InfoDone(r)
    /\ resp[r].status = 200
    /\ resp[r].rows = 1
    /\ resp[r].columns = 1
    /\ resp[r].column_names = ThreeLineFile[2]
    /\ agent # BindAgent(df)

\* No ingestion is in progress: startup has ended and no upload-csv or
\* load-from-url request is between its arrival and its response's delivery.
NoIngestionInProgress ==
  /\ startup_pc = "done"
  /\ \A r \in Req : ~IsIngest(req[r])

\* C17: in every state with no ingestion in progress, a bound agent is bound
\* to the table object that df holds.
C17_AgentBoundToPublished ==
  (NoIngestionInProgress /\ agent # NoAgent) => agent.df = df

\* The file that a URL of the uploads directory names holds the bytes the
\* table in df was parsed from.
UrlNamesPublished ==
  \A f \in Filenames :
    current_file_url = FileUrl(f) =>
      /\ uploads[f].exists
      /\ uploads[f].data = df.src

\* C18: in every state with no ingestion in progress and current_file_url
\* set, the file_url that health reports names the source whose bytes produced
\* the table in df; a failed upload-csv or load-from-url does not leave it
\* naming another source.
C18_FileUrlNamesPublished ==
  (NoIngestionInProgress /\ current_file_url # NoUrl) => UrlNamesPublished

\* C19: in every state a bound agent implies a loaded table, and no step
\* resets either: once df is set it stays set, and once an agent is bound an
\* agent stays bound, through every request and every failure.
C19_NeverReset ==
  /\ [](agent # NoAgent => ~IsNone(df))
  /\ [][/\ ~IsNone(df) => ~IsNone(df')
        /\ agent # NoAgent => agent' # NoAgent]_vars

C19_Witness ==
  \E r \in Req :
    /\ IngestDone(r)
    /\ req[r].kind = "upload"
    /\ exc[r] \in DecodeErrors \cup {"AgentInitError", "OSError"}
    /\ pre.agent # NoAgent
    /\ agent # NoAgent
    /\ ~IsNone(df)

====
